---- MODULE Spec2Model ----
(***************************************************************************)
(* Contact-form backend: POST /contact (rate limit -> validate/sanitize -> *)
(* save -> confirmation mail -> respond) and GET /contact (find all).      *)
(* Strings are sequences of one-character strings.                         *)
(***************************************************************************)
EXTENDS Integers, Sequences, FiniteSets, TLC

(***************************************************************************)
(* Program constants                                                       *)
(***************************************************************************)
\* rateLimit({ windowMs: 15 * 60 * 1000, max: 10, ... })
windowMs == 15 * 60 * 1000
max == 10
\* isLength({ max: 1000 })
MaxMessageLength == 1000

(***************************************************************************)
(* Bounds of the model                                                     *)
(***************************************************************************)
\* requests of the first client accepted beyond the limit within one window
MaxOver == 1
\* requests of the first client accepted within one window when the limit
\* is not to be reached
MaxPosts == 2
\* requests of every other client accepted within one window
MaxLight == 1
\* Contact documents constructed in one run
MaxDocs == 2
\* the same, where the limiter is explored to its limit
MaxDocsLimiter == 1

\* the clock advances in steps of half a window
TickStep == windowMs \div 2

(***************************************************************************)
(* Strings                                                                 *)
(***************************************************************************)
\* req.body.<field> when the JSON body has no such key
Undefined == <<"undefined">>

Rep(c, n) == [i \in 1..n |-> c]

Whitespace == {" ", "\t", "\n"}

\* the grave accent, which has no string literal in TLA+
Backtick == "GRAVE"

\* express-validator converts the field's value to a string before a
\* standard validator or sanitizer sees it; undefined becomes ''.
toString(v) == IF v = Undefined THEN <<>> ELSE v

\* validator.trim: strip whitespace at both ends
trim(s) ==
  IF \A i \in 1..Len(s) : s[i] \in Whitespace THEN <<>>
  ELSE LET lo == CHOOSE i \in 1..Len(s) :
                   /\ s[i] \notin Whitespace
                   /\ \A j \in 1..(i - 1) : s[j] \in Whitespace
           hi == CHOOSE i \in 1..Len(s) :
                   /\ s[i] \notin Whitespace
                   /\ \A j \in (i + 1)..Len(s) : s[j] \in Whitespace
       IN  SubSeq(s, lo, hi)

\* validator.isEmpty negated (.notEmpty())
notEmpty(s) == Len(s) # 0

\* validator.isLength(str, { max }) with the default min of 0
isLength(s, mx) == Len(s) >= 0 /\ Len(s) <= mx

\* validator.escape: the replacement of one character
escapeChar(c) ==
  CASE c = "&"  -> <<"&", "a", "m", "p", ";">>
    [] c = "\"" -> <<"&", "q", "u", "o", "t", ";">>
    [] c = "'"  -> <<"&", "#", "x", "2", "7", ";">>
    [] c = "<"  -> <<"&", "l", "t", ";">>
    [] c = ">"  -> <<"&", "g", "t", ";">>
    [] c = "/"  -> <<"&", "#", "x", "2", "F", ";">>
    [] c = "\\" -> <<"&", "#", "x", "5", "C", ";">>
    [] c = Backtick -> <<"&", "#", "9", "6", ";">>
    [] OTHER    -> <<c>>

\* validator.escape: every markup-significant character is replaced
RECURSIVE escape(_)
escape(s) ==
  IF Len(s) = 0 THEN <<>>
  ELSE IF Len(s) = 1 THEN escapeChar(s[1])
  ELSE LET m == Len(s) \div 2
       IN  escape(SubSeq(s, 1, m)) \o escape(SubSeq(s, m + 1, Len(s)))

Upper == <<"A","B","C","D","E","F","G","H","I","J","K","L","M",
           "N","O","P","Q","R","S","T","U","V","W","X","Y","Z">>
Lower == <<"a","b","c","d","e","f","g","h","i","j","k","l","m",
           "n","o","p","q","r","s","t","u","v","w","x","y","z">>
Digits == {"0","1","2","3","4","5","6","7","8","9"}
Letters == {Upper[i] : i \in 1..26} \cup {Lower[i] : i \in 1..26}

toLowerChar(c) ==
  IF \E i \in 1..26 : Upper[i] = c
  THEN Lower[CHOOSE i \in 1..26 : Upper[i] = c]
  ELSE c

toLowerCase(s) == [i \in 1..Len(s) |-> toLowerChar(s[i])]

\* positions of character c in s
IndexesOf(s, c) == {i \in 1..Len(s) : s[i] = c}

MaxOf(S) == CHOOSE i \in S : \A j \in S : j <= i
MinOf(S) == CHOOSE i \in S : \A j \in S : i <= j

\* the part before the last '@' (empty when there is no '@')
userOf(s) ==
  IF IndexesOf(s, "@") = {} THEN <<>>
  ELSE SubSeq(s, 1, MaxOf(IndexesOf(s, "@")) - 1)

\* the part after the last '@' (the whole string when there is no '@')
domainOf(s) ==
  IF IndexesOf(s, "@") = {} THEN s
  ELSE SubSeq(s, MaxOf(IndexesOf(s, "@")) + 1, Len(s))

\* no dot-separated part of s is empty
NoEmptyPart(s) ==
  /\ Len(s) > 0
  /\ s[1] # "." /\ s[Len(s)] # "."
  /\ \A i \in 1..(Len(s) - 1) : ~(s[i] = "." /\ s[i + 1] = ".")

\* characters validator.isEmail accepts in an unquoted local part
UserChars == Letters \cup Digits \cup
  {".", "!", "#", "$", "%", "&", "'", "*", "+", "-", "/", "=", "?", "^", "_", Backtick, "{", "|", "}", "~"}

\* validator.isFQDN with require_tld
isFQDN(d) ==
  /\ NoEmptyPart(d)
  /\ IndexesOf(d, ".") # {}
  /\ \A i \in 1..Len(d) : d[i] \in Letters \cup Digits \cup {"-", "."}
  /\ LET tld == SubSeq(d, MaxOf(IndexesOf(d, ".")) + 1, Len(d))
     IN  Len(tld) >= 2 /\ \A i \in 1..Len(tld) : tld[i] \in Letters

\* validator.isEmail with the default options
isEmail(s) ==
  /\ IndexesOf(s, "@") # {}
  /\ Len(userOf(s)) <= 64 /\ Len(domainOf(s)) <= 254
  /\ isFQDN(domainOf(s))
  /\ NoEmptyPart(userOf(s))
  /\ \A i \in 1..Len(userOf(s)) : userOf(s)[i] \in UserChars

gmail == <<"g","m","a","i","l",".","c","o","m">>
googlemail == <<"g","o","o","g","l","e","m","a","i","l",".","c","o","m">>

\* s without the characters in set C
Without(s, C) == SelectSeq(s, LAMBDA c : c \notin C)

\* validator.normalizeEmail with the default options: the domain is
\* lowercased; a gmail/googlemail address loses its +subaddress and its
\* dots and becomes @gmail.com; every other local part is lowercased.
normalizeEmail(s) ==
  LET user == userOf(s)
      domain == toLowerCase(domainOf(s))
  IN  IF domain \in {gmail, googlemail}
      THEN LET base == IF IndexesOf(user, "+") = {} THEN user
                       ELSE SubSeq(user, 1, MinOf(IndexesOf(user, "+")) - 1)
           IN  toLowerCase(Without(base, {"."})) \o <<"@">> \o gmail
      ELSE toLowerCase(user) \o <<"@">> \o domain


(***************************************************************************)
(* Validation and sanitization chains of router.post('/')                  *)
(***************************************************************************)
\* check('name').trim().notEmpty().withMessage(...).escape()
nameErrors(b) ==
  IF notEmpty(trim(toString(b.name))) THEN <<>>
  ELSE <<[param |-> "name", msg |-> "Name is required"]>>

nameValue(b) == escape(trim(toString(b.name)))

\* check('email').trim().isEmail().withMessage(...).normalizeEmail()
emailErrors(b) ==
  IF isEmail(trim(toString(b.email))) THEN <<>>
  ELSE <<[param |-> "email", msg |-> "Valid email is required"]>>

emailValue(b) == normalizeEmail(trim(toString(b.email)))

\* check('phone').optional().trim().escape(), and the same for topic: an
\* undefined field is left alone
optionalValue(v) == IF v = Undefined THEN Undefined ELSE escape(trim(v))

\* the message chain without its isLength validator
messageErrorsNoLength(b) ==
  IF notEmpty(trim(toString(b.message))) THEN <<>>
  ELSE <<[param |-> "message", msg |-> "Message is required"]>>

\* check('message').trim().notEmpty().withMessage(...)
\*   .isLength({ max: 1000 }).withMessage(...).escape()
\* Both validators see the trimmed value; escape runs after them.
messageErrors(b) ==
  LET v == trim(toString(b.message))
  IN  (IF notEmpty(v) THEN <<>>
       ELSE <<[param |-> "message", msg |-> "Message is required"]>>)
      \o
      (IF isLength(v, MaxMessageLength) THEN <<>>
       ELSE <<[param |-> "message",
               msg |-> "Message can be at most 1000 characters long"]>>)

messageValue(b) == escape(trim(toString(b.message)))

\* validationResult(req).array()
validationErrors(b) == nameErrors(b) \o emailErrors(b) \o messageErrors(b)

\* req.body after the chains have run
sanitize(b) ==
  [name    |-> nameValue(b),
   email   |-> emailValue(b),
   phone   |-> optionalValue(b.phone),
   topic   |-> optionalValue(b.topic),
   message |-> messageValue(b)]

(***************************************************************************)
(* Contact model                                                           *)
(***************************************************************************)
NoDoc == [_id |-> 0]

\* new Contact({ name, email, phone, topic, message }): the document gets
\* its _id and the default of date (the time of construction, whose value
\* is left open) when it is constructed
Contact(id, b) ==
  [_id |-> id, name |-> b.name, email |-> b.email, phone |-> b.phone,
   topic |-> b.topic, message |-> b.message, date |-> "Date.now"]

\* the schema's validation on save: name, email and message are required
\* (a required String must be non-empty); there is no length constraint
schemaValid(d) ==
  /\ d.name # Undefined /\ Len(d.name) > 0
  /\ d.email # Undefined /\ Len(d.email) > 0
  /\ d.message # Undefined /\ Len(d.message) > 0

\* a save that replaces the newest document instead of inserting
saveReplacing(coll, d) ==
  IF coll = <<>> THEN <<d>> ELSE [coll EXCEPT ![Len(coll)] = d]

\* newContact.save(): insert one document into the collection
save(coll, d) == Append(coll, d)

\* Contact.find(): all documents of the collection
find(coll) == coll

(***************************************************************************)
(* Rate limiter (contactLimiter with the default in-memory store)          *)
(***************************************************************************)
\* An entry of the store is [totalHits, resetTime]; the model keeps
\* resetIn, the time left until resetTime (0 once it has passed), since
\* the limiter only compares resetTime with the current time.
NoClient == [totalHits |-> 0, resetIn |-> 0]

\* the key of a request: its client address
keyGenerator(ip) == ip

\* the window of the entry has ended (or there is no entry yet)
expired(c) == c.resetIn <= 0

\* an increment that does not count the hit that starts a window
incrementAfterReset(tbl, key) ==
  IF expired(tbl[key])
  THEN [tbl EXCEPT ![key] = [totalHits |-> 0, resetIn |-> windowMs]]
  ELSE [tbl EXCEPT ![key].totalHits = @ + 1]

\* the store's increment: a missing or expired entry starts a new window
\* of windowMs, then the hit is counted
increment(tbl, key) ==
  LET c == IF expired(tbl[key])
           THEN [totalHits |-> 0, resetIn |-> windowMs]
           ELSE tbl[key]
  IN  [tbl EXCEPT ![key] = [c EXCEPT !.totalHits = @ + 1]]

\* a limiter that already rejects the hit number max
limitedAtMax(current) == current >= max

\* the limiter rejects a request whose hit number exceeds max
limited(current) == current > max

\* a limiter with skipFailedRequests: a response of 400 or more gives the
\* hit back
afterResponseSkipFailed(tbl, key, code) ==
  IF code >= 400 /\ tbl[key].totalHits > 0
  THEN [tbl EXCEPT ![key].totalHits = @ - 1]
  ELSE tbl

\* skipFailedRequests and skipSuccessfulRequests are not set: a response,
\* whatever its status, leaves the count of its key as it is
afterResponse(tbl, key, code) == tbl

TooMany == "Too many contact form submissions from this IP, please try again after 15 minutes"

(***************************************************************************)
(* State                                                                   *)
(***************************************************************************)
Heavy == "10.0.0.1"
Light == "10.0.0.2"
Clients == {Heavy, Light}
Reqs == {1, 2}

VARIABLES
  hits,      \* the limiter's store: key -> [totalHits, resetIn]
  req,       \* the requests being served, by connection
  nextId,    \* the next _id a constructed Contact gets
  contacts,  \* the contacts collection
  mail,      \* the mails handed to the transporter
  arrived,   \* history: POSTs received per address in its current window
  passed,    \* history: of those, the ones the limiter let through
  writes,    \* history: documents written to the collection
  created    \* history: 201 responses sent

vars == <<hits, req, nextId, contacts, mail, arrived, passed, writes, created>>

\* a connection with no request on it
Idle ==
  [pc |-> "idle", method |-> "", ip |-> "", input |-> <<>>, body |-> <<>>,
   reset |-> FALSE, validated |-> FALSE, errors |-> <<>>, doc |-> NoDoc,
   saved |-> FALSE, status |-> 0, sent |-> 0, text |-> "",
   list |-> <<>>, seen |-> 0]

Init ==
  /\ hits = [k \in Clients |-> NoClient]
  /\ req = [r \in Reqs |-> Idle]
  /\ nextId = 1
  /\ contacts = <<>>
  /\ mail = {}
  /\ arrived = [k \in Clients |-> 0]
  /\ passed = [k \in Clients |-> 0]
  /\ writes = 0
  /\ created = 0

\* res.status(code).<send>(...): one more response on the connection
respond(q, code, text) ==
  [q EXCEPT !.pc = "done", !.status = code, !.sent = @ + 1, !.text = text]

(***************************************************************************)
(* POST /contact                                                           *)
(***************************************************************************)
\* A POST arrives on connection r from address ip and runs contactLimiter,
\* the first middleware of the route.
contactLimiter(r, ip, b, cap) ==
  /\ req[r].pc = "idle"
  /\ expired(hits[keyGenerator(ip)]) \/ hits[keyGenerator(ip)].totalHits < cap
  /\ LET key   == keyGenerator(ip)
         tbl   == increment(hits, key)
         fresh == expired(hits[key])
         over  == limited(tbl[key].totalHits)
         q     == [Idle EXCEPT !.method = "POST", !.ip = ip, !.input = b,
                               !.body = b,
                               !.reset = (fresh /\ limited(hits[key].totalHits))]
     IN  /\ hits' = IF over THEN afterResponse(tbl, key, 429) ELSE tbl
         /\ req' = [req EXCEPT ![r] =
                      IF over THEN respond(q, 429, TooMany)
                      ELSE [q EXCEPT !.pc = "validate"]]
         /\ arrived' = [arrived EXCEPT ![ip] = IF fresh THEN 1 ELSE @ + 1]
         /\ passed' = [passed EXCEPT ![ip] =
                         (IF fresh THEN 0 ELSE @) + (IF over THEN 0 ELSE 1)]
  /\ UNCHANGED <<nextId, contacts, mail, writes, created>>

\* The validation chains run and write the sanitized values to req.body.
validate(r) ==
  /\ req[r].pc = "validate"
  /\ req' = [req EXCEPT ![r] =
               [@ EXCEPT !.pc = "handler",
                         !.validated = TRUE,
                         !.errors = validationErrors(req[r].body),
                         !.body = sanitize(req[r].body)]]
  /\ UNCHANGED <<hits, nextId, contacts, mail, arrived, passed, writes, created>>

\* The handler up to its await: 400 on validation errors, otherwise a new
\* Contact whose save is started.
handler(r, maxDocs) ==
  /\ req[r].pc = "handler"
  /\ IF req[r].errors # <<>>
     THEN /\ req' = [req EXCEPT ![r] = respond(@, 400, "errors")]
          /\ hits' = afterResponse(hits, keyGenerator(req[r].ip), 400)
          /\ UNCHANGED nextId
     ELSE /\ nextId <= maxDocs
          /\ req' = [req EXCEPT ![r] =
                       [@ EXCEPT !.pc = "save",
                                 !.doc = Contact(nextId, req[r].body)]]
          /\ nextId' = nextId + 1
          /\ UNCHANGED hits
  /\ UNCHANGED <<contacts, mail, arrived, passed, writes, created>>

\* newContact.save() writes the document.
saveResolves(r) ==
  /\ req[r].pc = "save"
  /\ schemaValid(req[r].doc)
  /\ contacts' = save(contacts, req[r].doc)
  /\ writes' = writes + 1
  /\ req' = [req EXCEPT ![r] = [@ EXCEPT !.pc = "saved", !.saved = TRUE]]
  /\ UNCHANGED <<hits, nextId, mail, arrived, passed, created>>

\* the mail handed to transporter.sendMail
mailOptions(d) == [doc |-> d._id, to |-> d.email, state |-> "pending"]

\* a handler that hands the mail to the transporter before the save has
\* settled
saveRejectsAfterMail(r) ==
  /\ req[r].pc = "save"
  /\ req' = [req EXCEPT ![r] = respond(@, 500, "Failed to submit contact form.")]
  /\ hits' = afterResponse(hits, keyGenerator(req[r].ip), 500)
  /\ mail' = mail \cup {mailOptions(req[r].doc)}
  /\ UNCHANGED <<nextId, contacts, arrived, passed, writes, created>>

\* newContact.save() rejects (schema validation or the database); the
\* catch block answers 500.
saveRejects(r) ==
  /\ req[r].pc = "save"
  /\ req' = [req EXCEPT ![r] = respond(@, 500, "Failed to submit contact form.")]
  /\ hits' = afterResponse(hits, keyGenerator(req[r].ip), 500)
  /\ UNCHANGED <<nextId, contacts, mail, arrived, passed, writes, created>>

\* After the await: transporter.sendMail(mailOptions, callback), then the
\* 201 response.  The call is inside the try block: if it throws, the
\* catch block answers 500 instead.
sendAndRespond(r) ==
  /\ req[r].pc = "saved"
  /\ \/ /\ mail' = mail \cup {mailOptions(req[r].doc)}
        /\ req' = [req EXCEPT ![r] =
                     respond(@, 201, "Contact form submitted successfully!")]
        /\ hits' = afterResponse(hits, keyGenerator(req[r].ip), 201)
        /\ created' = created + 1
     \/ /\ mail' = mail
        /\ req' = [req EXCEPT ![r] =
                     respond(@, 500, "Failed to submit contact form.")]
        /\ hits' = afterResponse(hits, keyGenerator(req[r].ip), 500)
        /\ created' = created
  /\ UNCHANGED <<nextId, contacts, arrived, passed, writes>>

\* The callback of sendMail: the outcome is logged, nothing else.
mailCallback(m, ok) ==
  /\ m \in mail
  /\ m.state = "pending"
  /\ mail' = (mail \ {m}) \cup
             {[m EXCEPT !.state = IF ok THEN "sent" ELSE "failed"]}
  /\ UNCHANGED <<hits, req, nextId, contacts, arrived, passed, writes, created>>

\* The response has been delivered; the connection serves the next request.
close(r) ==
  /\ req[r].pc = "done"
  /\ req' = [req EXCEPT ![r] = Idle]
  /\ UNCHANGED <<hits, nextId, contacts, mail, arrived, passed, writes, created>>

(***************************************************************************)
(* GET /contact                                                            *)
(***************************************************************************)
\* A GET arrives on connection r (from any address; the route has no
\* limiter): Contact.find(), then 200 with the documents, or 500.
getContacts(r, ok) ==
  /\ req[r].pc = "idle"
  /\ req' = [req EXCEPT ![r] =
               IF ok
               THEN [respond([Idle EXCEPT !.method = "GET"], 200, "contacts")
                       EXCEPT !.list = find(contacts), !.seen = writes]
               ELSE respond([Idle EXCEPT !.method = "GET"], 500,
                            "Failed to retrieve contact messages.")]
  /\ UNCHANGED <<hits, nextId, contacts, mail, arrived, passed, writes, created>>

(***************************************************************************)
(* Time                                                                    *)
(***************************************************************************)
\* TickStep milliseconds pass: every window has that much less to run.
tick ==
  /\ \E k \in Clients : ~expired(hits[k])
  /\ hits' = [k \in Clients |->
               [hits[k] EXCEPT !.resetIn =
                  IF @ > TickStep THEN @ - TickStep ELSE 0]]
  /\ UNCHANGED <<req, nextId, contacts, mail, arrived, passed, writes, created>>

(***************************************************************************)
(* Request bodies                                                          *)
(***************************************************************************)
Body(n, e, p, t, m) ==
  [name |-> n, email |-> e, phone |-> p, topic |-> t, message |-> m]

AnnEmail == <<"A","N","N","@","E","x","a","m","p","l","e",".","c","o","m">>

\* { name: "Ann", email: "ANN@Example.com", message: "Hello" }
BodyAnn == Body(<<"A","n","n">>, AnnEmail, Undefined, Undefined,
                <<"H","e","l","l","o">>)

\* markup in every escaped field, surrounding whitespace
BodyMarkup == Body(<<" ","<","b",">"," ">>, <<" ">> \o AnnEmail,
                   <<"1","/","2">>, <<"a","&","b">>, <<" ","<","i",">","\t">>)

\* { name: "", email: "a@b.com", message: "hi" }
BodyNoName == Body(<<>>, <<"a","@","b",".","c","o","m">>, Undefined,
                   Undefined, <<"h","i">>)

\* every required field fails
BodyEmpty == Body(Undefined, <<"b","a","d">>, Undefined, Undefined, <<" "," ">>)

\* only the email fails: no top-level domain
BodyBadEmail == Body(<<"B","o","b">>, <<"b","o","b","@","h","o","s","t">>,
                     Undefined, Undefined, <<"h","i">>)

\* only the message fails: whitespace
BodyBlank == Body(<<"B","o","b">>, <<"a","@","b",".","c","o","m">>,
                  Undefined, Undefined, <<" ","\n"," ">>)

\* a message of exactly MaxMessageLength characters once trimmed
BodyLong == Body(<<"B","o","b">>, <<"a","@","b",".","c","o","m">>, Undefined,
                 Undefined, <<" ">> \o Rep("a", MaxMessageLength) \o <<" ">>)

\* a message one character longer
BodyTooLong == Body(<<"B","o","b">>, <<"a","@","b",".","c","o","m">>,
                    Undefined, Undefined, Rep("a", MaxMessageLength + 1))

\* a message of MaxMessageLength characters, one of them markup
BodyLongMarkup == Body(<<"B","o","b">>,
                       <<"B",".","o","b","+","x","@","G","m","a","i","l",".","c","o","m">>,
                       <<>>, Undefined,
                       Rep("a", MaxMessageLength - 1) \o <<"<">>)

Bodies == {BodyAnn, BodyMarkup, BodyNoName, BodyEmpty, BodyBadEmail,
           BodyBlank, BodyLong, BodyTooLong, BodyLongMarkup}

(***************************************************************************)
(* Specifications                                                          *)
(***************************************************************************)
\* The requests of clients Cl on connections Rq with bodies Bd, up to the
\* point where a document is saved, within the given bounds.
Requests(Cl, Rq, Bd, heavyCap, lightCap, maxDocs) ==
  \/ \E r \in Rq, ip \in Cl, b \in Bd :
       contactLimiter(r, ip, b, IF ip = Heavy THEN heavyCap ELSE lightCap)
  \/ \E r \in Rq : validate(r)
  \/ \E r \in Rq : handler(r, maxDocs)
  \/ \E r \in Rq : close(r)
  \/ \E r \in Rq, ok \in BOOLEAN : getContacts(r, ok)
  \/ tick

\* The rest of a Submit: the save, the mail and the response.
Storing(Rq) ==
  \/ \E r \in Rq : saveResolves(r)
  \/ \E r \in Rq : saveRejects(r)
  \/ \E r \in Rq : sendAndRespond(r)
  \/ \E m \in mail, ok \in BOOLEAN : mailCallback(m, ok)

\* One client on two connections, below the rate limit: the store and the
\* mails under concurrent requests.
Next ==
  \/ Requests({Heavy}, Reqs, {BodyMarkup, BodyEmpty}, MaxPosts, MaxLight, MaxDocs)
  \/ Storing(Reqs)

Spec == Init /\ [][Next]_vars

\* Two clients on two connections, the first one up to and beyond the
\* limit.  No body is valid, so no document is constructed and the actions
\* of Storing are never enabled.
NextLimiter ==
  Requests(Clients, Reqs, {BodyEmpty, BodyNoName}, max + MaxOver, MaxLight, 0)

SpecLimiter == Init /\ [][NextLimiter]_vars

\* One client on one connection, every kind of body.
NextSerial ==
  \/ Requests({Heavy}, {1}, Bodies, MaxPosts, MaxLight, MaxDocsLimiter)
  \/ Storing({1})

SpecSerial == Init /\ [][NextSerial]_vars

\* One client on two connections, beyond the limit and into later windows.
NextWindow ==
  \/ Requests({Heavy}, Reqs, {BodyEmpty, BodyAnn}, max + MaxOver, MaxLight,
              MaxDocsLimiter)
  \/ Storing(Reqs)

SpecWindow == Init /\ [][NextWindow]_vars

(***************************************************************************)
(* Properties                                                              *)
(***************************************************************************)
Min(a, b) == IF a <= b THEN a ELSE b

Posts == {r \in Reqs : req[r].method = "POST"}
Gets == {r \in Reqs : req[r].method = "GET"}

\* the document with this _id is in the collection
Stored(id) == \E i \in 1..Len(contacts) : contacts[i]._id = id

\* a mail for the document with this _id was handed to the transporter
Mailed(id) == \E m \in mail : m.doc = id

\* at least one of name, email and message is not acceptable
invalidInput(b) ==
  \/ trim(toString(b.name)) = <<>>
  \/ ~isEmail(trim(toString(b.email)))
  \/ trim(toString(b.message)) = <<>>
  \/ Len(trim(toString(b.message))) > MaxMessageLength

\* C1: a POST that passed the rate check and whose name, email or message
\* fails validation never gets a document, a store write or a mail, and is
\* answered 400 (once) with the list of validation errors.
C1_InvalidRejected ==
  \A r \in Posts :
    (req[r].validated /\ invalidInput(req[r].input)) =>
      /\ req[r].errors # <<>>
      /\ req[r].doc = NoDoc
      /\ ~req[r].saved
      /\ req[r].pc \in {"handler", "done"}
      /\ req[r].pc = "done" =>
           (req[r].status = 400 /\ req[r].text = "errors" /\ req[r].sent = 1)

\* a request whose only fault is a message of 1001 characters was answered 400
C1_Witness ==
  \E r \in Posts :
    /\ req[r].pc = "done" /\ req[r].status = 400
    /\ req[r].input = BodyTooLong
    /\ Len(req[r].errors) = 1 /\ req[r].errors[1].param = "message"
    /\ contacts = <<>> /\ mail = {}

\* C2: a Submit whose store write succeeded is answered 201, once, and its
\* record stays in the store, whatever the mail transport does.
C2_NotificationIsolated ==
  \A r \in Posts :
    (req[r].saved /\ req[r].pc = "done") =>
      (req[r].status = 201 /\ req[r].sent = 1 /\ Stored(req[r].doc._id))

\* C3: the limiter lets the first max POSTs of an address in a window
\* through and rejects every later one with 429 and the text message; a
\* rejected request is not validated, gets no document, writes nothing and
\* sends no mail.
C3_RateLimit ==
  /\ \A k \in Clients : passed[k] = Min(arrived[k], max)
  /\ \A r \in Reqs :
       req[r].status = 429 =>
         /\ req[r].method = "POST" /\ req[r].pc = "done"
         /\ req[r].text = TooMany /\ req[r].sent = 1
         /\ ~req[r].validated /\ req[r].errors = <<>>
         /\ req[r].body = req[r].input
         /\ req[r].doc = NoDoc /\ ~req[r].saved

\* the eleventh POST of an address, with a valid body, was answered 429
C3_Witness ==
  \E r \in Posts :
    /\ req[r].status = 429 /\ req[r].ip = Heavy
    /\ req[r].input = BodyAnn
    /\ arrived[Heavy] = max + 1 /\ passed[Heavy] = max

\* C4: a Submit whose store write failed is answered 500 (once) with the
\* failure message; its document is not in the store and no mail was sent
\* for it.
C4_SaveFailure ==
  \A r \in Posts :
    (req[r].doc # NoDoc /\ ~req[r].saved /\ req[r].pc = "done") =>
      /\ req[r].status = 500
      /\ req[r].text = "Failed to submit contact form."
      /\ req[r].sent = 1
      /\ ~Stored(req[r].doc._id)
      /\ ~Mailed(req[r].doc._id)

\* a Submit failed at the store while another one's record and mail exist
C4_Witness ==
  \E r \in Posts :
    /\ req[r].doc # NoDoc /\ ~req[r].saved /\ req[r].pc = "done"
    /\ Len(contacts) = 1 /\ mail # {}

\* C5: the message of every stored record has at most 1000 characters.
C5_MessageAtMost1000 ==
  \A i \in 1..Len(contacts) : Len(contacts[i].message) <= MaxMessageLength

\* no POST is between its rate check and its response
NoSubmitInProgress == \A r \in Reqs : req[r].pc \in {"idle", "done"}

\* C6: when no Submit is in progress, the store holds exactly one record
\* per Submit answered 201, each with the sanitized fields of its request,
\* and none for a Submit answered 400, 429 or 500.
C6_ListMatchesSuccesses ==
  NoSubmitInProgress =>
    /\ Len(find(contacts)) = created
    /\ \A r \in Posts :
         /\ req[r].status = 201 =>
              \E i \in 1..Len(contacts) :
                contacts[i] = Contact(req[r].doc._id, sanitize(req[r].input))
         /\ req[r].status \in {400, 429, 500} =>
              (req[r].doc = NoDoc \/ ~Stored(req[r].doc._id))

\* C7: a stored record is never changed or removed, the store only grows,
\* and two successful List calls with no store write between them return
\* the same records.
C7_Immutable ==
  /\ [][/\ Len(contacts') >= Len(contacts)
        /\ \A i \in 1..Len(contacts) : contacts'[i] = contacts[i]]_vars
  /\ [](\A r1, r2 \in Gets :
          (req[r1].status = 200 /\ req[r2].status = 200
             /\ req[r1].seen = req[r2].seen) => req[r1].list = req[r2].list)

\* two List responses with no write between them, after two writes
C7_Witness ==
  /\ req[1].method = "GET" /\ req[1].status = 200
  /\ req[2].method = "GET" /\ req[2].status = 200
  /\ req[1].seen = req[2].seen
  /\ Len(req[1].list) = 2

\* C8: a POST that arrives after the window in which its address was
\* rate-limited has run out passes the rate check, and is answered 201 if
\* its body is valid and its store write succeeds.
C8_WindowReset ==
  \A r \in Posts :
    req[r].reset =>
      /\ req[r].status # 429
      /\ (req[r].pc = "done" /\ ~invalidInput(req[r].input) /\ req[r].saved)
           => req[r].status = 201

\* C9: under every interleaving of concurrent POSTs no hit is lost, at most
\* max requests of an address pass in one window, and the count of an
\* address changes only when a POST of that address arrives.
C9_CounterSafe ==
  /\ [](\A k \in Clients :
          hits[k].totalHits = arrived[k] /\ passed[k] <= max)
  /\ [][\A k \in Clients :
          hits'[k].totalHits # hits[k].totalHits =>
            \E r \in Reqs : /\ req[r].pc = "idle"
                            /\ req'[r].method = "POST"
                            /\ req'[r].ip = k]_vars

\* two POSTs of the first address in progress at once, its window full,
\* and the other address with a count of its own
C9_Witness ==
  /\ req[1].ip = Heavy /\ req[2].ip = Heavy
  /\ req[1].pc = "validate" /\ req[2].pc = "validate"
  /\ passed[Heavy] = max
  /\ hits[Light].totalHits = 1

\* C10: a POST counts toward the limit of its address whatever its
\* outcome: no response (400, 500 or any other) gives the hit back, and a
\* GET is never counted and never answered 429.
C10_EveryPostCounts ==
  /\ [](\A k \in Clients : hits[k].totalHits = arrived[k])
  /\ [](\A r \in Gets : req[r].status \in {200, 500})
  /\ [][\A r \in Reqs :
          (req[r].pc # "done" /\ req'[r].pc = "done") =>
            \/ req'[r].method = "POST" /\ req[r].pc = "idle"
            \/ hits' = hits]_vars

\* a valid POST answered 429 although no Submit of the window succeeded:
\* the ten that passed were answered 400
C10_Witness ==
  \E r \in Posts :
    /\ req[r].status = 429 /\ req[r].input = BodyAnn
    /\ nextId = 1 /\ contacts = <<>>
    /\ passed[Heavy] = max

====
